---- MODULE Spec2Model ----
(***************************************************************************)
(* Model of cocos/spine/skeleton-cache.ts: the AnimationCache frame        *)
(* recorder and the SkeletonCache registry with its animation pool.        *)
(*                                                                         *)
(* Objects live in two heaps: rec (AnimationCache objects) and ctx         *)
(* (SkeletonCacheItemInfo objects).  An object reference is an index into  *)
(* its heap, 0 is null.  Strings that are concatenated or searched         *)
(* (uuid, animation name, pool key) are sequences of characters.           *)
(* Time is counted in ticks of FrameTime (1/60 s).                         *)
(***************************************************************************)
EXTENDS Integers, Sequences, FiniteSets, TLC

\* ---- bounds of the model ------------------------------------------------
\* AnimationCache objects that may be constructed in one run.
MaxRec == 2
\* SkeletonCacheItemInfo objects that may be constructed in one run.
MaxCtx == 2
\* The number of FrameTime steps after which totalTime is no longer below
\* MaxCacheTime, scaled down; every duration below is stated relative to it.
MaxCacheTicks == 3
\* Largest explicit target frame index passed to updateToFrame / getFrame.
MaxTarget == 0
\* Calls made on the cache in one run.
MaxCalls == 6

\* ---- inputs -------------------------------------------------------------
Null == 0
\* frames[i] of a hole of a sparse array, or of an index past the end
Undefined == 0
\* updateToFrame / needToUpdate called with toFrameIdx === undefined
NoTarget == -1

Uuids == { <<"h">>, <<"h", "2">> }
AnimNames == { <<"w">>, <<"r">> }
\* what a caller may pass as uuid to destroyCachedAnimations (<<>>: none)
DestroyArgs == Uuids \cup { <<>> }

\* skeletonData.animations of the skeleton asset `uuid`: the names it has and
\* Math.floor(duration / FrameTime) of each.  Skeleton "h" has "w" (2 ticks)
\* and "r" (longer than MaxCacheTime); skeleton "h2" has "w" only, shorter
\* than one tick.
HasAnimation(uuid, name) == uuid = <<"h">> \/ name = <<"w">>
DurationTicks(uuid, name) ==
    IF uuid = <<"h">>
    THEN IF name = <<"w">> THEN 2 ELSE MaxCacheTicks + 1
    ELSE 0

PoolKey(uuid, name) == uuid \o <<"#">> \o name
PoolKeys == { PoolKey(u, n) : u \in Uuids, n \in AnimNames }

\* String.prototype.includes
Includes(s, sub) ==
    \E i \in 0..(Len(s) - Len(sub)) : SubSeq(s, i + 1, i + Len(sub)) = sub

RecIds == 1..MaxRec
CtxIds == 1..MaxCtx

VARIABLES
    privateMode,    \* SkeletonCache._privateMode
    skeletonCache,  \* SkeletonCache._skeletonCache: uuid -> ctx reference
    animationPool,  \* SkeletonCache._animationPool: pool key -> rec reference
    rec,            \* heap of AnimationCache objects
    ctx,            \* heap of SkeletonCacheItemInfo objects
    nRec,           \* AnimationCache objects constructed so far
    nCtx,           \* SkeletonCacheItemInfo objects constructed so far
    last,           \* the last call made on the cache and what it observed
    calls,          \* calls made so far
    clock           \* one bake with totalTime kept in double arithmetic

vars == <<privateMode, skeletonCache, animationPool, rec, ctx, nRec, nCtx, last,
          calls, clock>>

\* ---- sparse arrays (frames) ---------------------------------------------
Holes(n) == [k \in 1..n |-> Undefined]

\* arr[index] = v
SetAt(arr, index, v) ==
    IF index < Len(arr) THEN [arr EXCEPT ![index + 1] = v]
    ELSE arr \o Holes(index - Len(arr)) \o <<v>>

\* arr.length = n
SetLength(arr, n) ==
    IF n <= Len(arr) THEN SubSeq(arr, 1, n) ELSE arr \o Holes(n - Len(arr))

\* arr[index]; index is NoIndex for NaN
NoIndex == -1
ElemAt(arr, index) ==
    IF index >= 0 /\ index < Len(arr) THEN arr[index + 1] ELSE Undefined

\* ---- AnimationCache -----------------------------------------------------
\* Field initialisers and constructor.  uuid stands for _skeletonData (the
\* runtime data of the asset the recorder was constructed from); destroyed
\* is set once destroySpineInstance has released that instance.
NewAnimationCache(uuid) ==
    [ privateMode   |-> FALSE,
      isCompleted   |-> FALSE,
      maxFrameIdex  |-> 0,
      frameIdx      |-> -1,
      inited        |-> FALSE,
      invalid       |-> TRUE,
      skeletonInfo  |-> Null,
      animationName |-> <<>>,
      totalTime     |-> 0,
      frames        |-> <<>>,
      skeletonData  |-> uuid,
      destroyed     |-> FALSE ]

\* a slot of the heap that holds no object yet
NoRec == NewAnimationCache(<<>>)

init(R, c, animationName) ==
    [R EXCEPT !.inited = TRUE, !.animationName = animationName, !.skeletonInfo = c]

setAnimation(R, animationName) ==
    IF ~HasAnimation(R.skeletonData, animationName) THEN R
    ELSE LET d == DurationTicks(R.skeletonData, animationName)
         IN  [R EXCEPT !.maxFrameIdex = IF d <= 0 THEN 1 ELSE d]

\* mutant: the target frame itself counts as still to be baked
needToUpdateInclusive(R, toFrameIdx) ==
    /\ ~R.isCompleted
    /\ R.totalTime < MaxCacheTicks
    /\ (toFrameIdx = NoTarget \/ R.frameIdx <= toFrameIdx)

\* mutant: a completed recorder still advances
needToUpdateIgnoresCompleted(R, toFrameIdx) ==
    /\ R.totalTime < MaxCacheTicks
    /\ (toFrameIdx = NoTarget \/ R.frameIdx < toFrameIdx)

needToUpdate(R, toFrameIdx) ==
    /\ ~R.isCompleted
    /\ R.totalTime < MaxCacheTicks
    /\ (toFrameIdx = NoTarget \/ R.frameIdx < toFrameIdx)

\* One pass of the body of the do-while loop of updateToFrame.  The frame
\* stored is the snapshot of the engine's output after the step; the pose
\* engine is not modelled, a snapshot is identified by the bake time it was
\* taken at (totalTime after the step).
\* mutant: completion is declared one frame early
bakeStepCompletesEarly(R) ==
    LET idx == R.frameIdx + 1
    IN  [R EXCEPT !.frameIdx = idx,
                  !.totalTime = @ + 1,
                  !.frames = SetAt(@, idx, R.totalTime + 1),
                  !.isCompleted = IF idx + 1 >= R.maxFrameIdex THEN TRUE ELSE @]

bakeStep(R) ==
    LET idx == R.frameIdx + 1
    IN  [R EXCEPT !.frameIdx = idx,
                  !.totalTime = @ + 1,
                  !.frames = SetAt(@, idx, R.totalTime + 1),
                  !.isCompleted = IF idx >= R.maxFrameIdex THEN TRUE ELSE @]

RECURSIVE bakeLoop(_, _)
bakeLoop(R, toFrameIdx) ==
    LET R1 == bakeStep(R)
    IN  IF needToUpdate(R1, toFrameIdx) THEN bakeLoop(R1, toFrameIdx) ELSE R1

\* mutant: invalidation also drops the baked frames
invalidAllFrameClearsFrames(R) ==
    [R EXCEPT !.isCompleted = FALSE, !.invalid = TRUE, !.frames = <<>>]

invalidAllFrame(R) == [R EXCEPT !.isCompleted = FALSE, !.invalid = TRUE]

invalidAnimationFrames(R) == [R EXCEPT !.frames = <<>>]

\* mutant: pooling resets the baked frames and the frame index
clearResetsFrames(R) ==
    [invalidAllFrame(R) EXCEPT !.inited = FALSE, !.frames = <<>>, !.frameIdx = -1]

clear(R) == invalidAllFrame([R EXCEPT !.inited = FALSE])

\* mutant: the frame index is not wrapped
getFrameNoWrap(R, frameIdx) == ElemAt(R.frames, frameIdx)

getFrame(R, frameIdx) ==
    LET index == IF R.maxFrameIdex = 0 THEN NoIndex ELSE frameIdx % R.maxFrameIdex
    IN  ElemAt(R.frames, index)

\* begin and updateToFrame call each other and write to the context and to
\* the previous recorder: they map a heap H = [rec, ctx] to a heap.
RECURSIVE begin(_, _)
RECURSIVE updateToFrame(_, _, _)

\* mutant: the previous recorder is flushed whatever the mode
beginFlushesAlways(H, r) ==
    IF ~H.rec[r].invalid THEN H
    ELSE
      LET c   == H.rec[r].skeletonInfo
          pre == H.ctx[c].curAnimationCache
          H1  == IF pre # Null /\ pre # r THEN updateToFrame(H, pre, 0) ELSE H
      IN  [H1 EXCEPT !.ctx[c].complete = r,
                     !.ctx[c].curAnimationCache = r,
                     !.rec[r].frameIdx = -1,
                     !.rec[r].isCompleted = FALSE,
                     !.rec[r].totalTime = 0,
                     !.rec[r].invalid = FALSE]

begin(H, r) ==
    IF ~H.rec[r].invalid THEN H
    ELSE
      LET c   == H.rec[r].skeletonInfo
          pre == H.ctx[c].curAnimationCache
          H1  == IF pre # Null /\ pre # r
                 THEN IF H.rec[r].privateMode
                      THEN [H EXCEPT !.rec[pre] = invalidAllFrame(@)]
                      ELSE updateToFrame(H, pre, 0)
                 ELSE H
      IN  [H1 EXCEPT !.ctx[c].complete = r,
                     !.ctx[c].curAnimationCache = r,
                     !.rec[r].frameIdx = -1,
                     !.rec[r].isCompleted = FALSE,
                     !.rec[r].totalTime = 0,
                     !.rec[r].invalid = FALSE]

updateToFrame(H, r, frameIdx) ==
    IF ~H.rec[r].inited THEN H
    ELSE
      LET H1 == begin(H, r)
      IN  IF ~needToUpdate(H1.rec[r], frameIdx) THEN H1
          ELSE [H1 EXCEPT !.rec[r] = bakeLoop(@, frameIdx)]

\* mutant: the frames array is not cut to the frames of this bake
endKeepsLength(H, r) ==
    IF needToUpdate(H.rec[r], NoTarget) THEN H
    ELSE
      LET c == H.rec[r].skeletonInfo
      IN  [H EXCEPT !.ctx[c].curAnimationCache = Null,
                    !.ctx[c].complete = Null,
                    !.rec[r].isCompleted = TRUE]

end(H, r) ==
    IF needToUpdate(H.rec[r], NoTarget) THEN H
    ELSE
      LET c == H.rec[r].skeletonInfo
      IN  [H EXCEPT !.ctx[c].curAnimationCache = Null,
                    !.ctx[c].complete = Null,
                    !.rec[r].frames = SetLength(@, H.rec[r].frameIdx + 1),
                    !.rec[r].isCompleted = TRUE]

\* completeHandle of bind: the handler the listener holds belongs to the
\* recorder that bound it last; entryName is entry.animation.name.
completeHandle(H, c, entryName) ==
    LET r == H.ctx[c].complete
    IN  IF r # Null /\ entryName = H.rec[r].animationName
        THEN [H EXCEPT !.rec[r].isCompleted = TRUE]
        ELSE H

\* ---- totalTime in double arithmetic ---------------------------------------
\* totalTime, FrameTime and MaxCacheTime are IEEE 754 doubles.  A double x in
\* [0, 32) is held as the integer x * 2^58 (2^-58 is the unit in the last
\* place of FrameTime), written as four 16-bit limbs, the lowest first.
Limb == 2^16
Zero == <<0, 0, 0, 0>>
\* 1 / 60 = 0x1.1111111111111p-6
FrameTime == <<4369, 4369, 4369, 17>>
\* 30 = 0x1.ep+4
MaxCacheTime == <<0, 0, 0, 30720>>
\* MaxCacheTime / FrameTime in exact arithmetic
CapTicks == 30 * 60

\* a + b, exact
Add(a, b) ==
    LET s1 == a[1] + b[1]
        s2 == a[2] + b[2] + s1 \div Limb
        s3 == a[3] + b[3] + s2 \div Limb
        s4 == a[4] + b[4] + s3 \div Limb
    IN  <<s1 % Limb, s2 % Limb, s3 % Limb, s4>>

\* a < b
Less(a, b) == \E i \in 1..4 : a[i] < b[i] /\ \A j \in (i + 1)..4 : a[j] = b[j]

\* the number of bits of a limb
BitLen(x) == CHOOSE k \in 0..16 : x < 2^k /\ (k = 0 \/ x >= 2^(k - 1))

\* s rounded to 53 significant bits, to nearest, ties to even
Round(s) ==
    LET d   == IF BitLen(s[4]) > 5 THEN BitLen(s[4]) - 5 ELSE 0
        u   == 2^d
        rem == s[1] % u
        odd == (s[1] \div u) % 2 = 1
        up  == 2 * rem > u \/ (2 * rem = u /\ odd)
    IN  Add(<<s[1] - rem, s[2], s[3], s[4]>>, IF up THEN <<u, 0, 0, 0>> ELSE Zero)

\* a + b of two doubles
DoubleAdd(a, b) == Round(Add(a, b))

\* A recorder that begin() has taken effect on, reduced to what the loop of
\* updateToFrame() reads and writes when called with no target frame and with
\* no completion signalled by the listener.
IdleClock ==
    [ frameIdx |-> -1, totalTime |-> Zero, isCompleted |-> FALSE, maxFrameIdex |-> 0 ]

\* mutant: the elapsed-time cap is not tested
clockNeedToUpdateNoCap(C) == ~C.isCompleted

\* needToUpdate() with toFrameIdx undefined
clockNeedToUpdate(C) == ~C.isCompleted /\ Less(C.totalTime, MaxCacheTime)

\* ---- SkeletonCache ------------------------------------------------------
NewSkeletonInfo ==
    [ curAnimationCache |-> Null,
      complete          |-> Null,
      animationsCache   |-> [n \in AnimNames |-> Null] ]

Heap == [rec |-> rec, ctx |-> ctx]

\* The call that led to the current state: its name and arguments, and what
\* begin() met when the call ran it.
\*   uuid, name : string arguments
\*   r          : the recorder called / returned (Null: none)
\*   idx        : frame index argument
\*   began      : begin() got past its `_invalid` guard on r
\*   pre        : curAnimationCache of r's context when the call started
\*   made       : "new" / "pool" / "map": where initAnimationCache got r from
\*   res        : the frame getFrame returned
NoCall ==
    [ op |-> "new", uuid |-> <<>>, name |-> <<>>, r |-> Null, idx |-> 0,
      began |-> FALSE, pre |-> Null, made |-> "", res |-> Undefined ]

EmptyCache ==
    /\ privateMode = FALSE
    /\ skeletonCache = [u \in Uuids |-> Null]
    /\ animationPool = [k \in PoolKeys |-> Null]
    /\ rec = [r \in RecIds |-> NoRec]
    /\ ctx = [c \in CtxIds |-> NewSkeletonInfo]
    /\ nRec = 0
    /\ nCtx = 0
    /\ last = NoCall
    /\ calls = 0

Init == EmptyCache /\ clock = IdleClock

\* every action is one call; the calls of the registry leave the clock alone
Call == calls < MaxCalls /\ calls' = calls + 1 /\ UNCHANGED clock

\* mutant: the mode is also written into the recorders that exist
EnablePrivateModeRetroactive ==
    /\ privateMode' = TRUE
    /\ rec' = [r \in RecIds |->
                 IF r <= nRec THEN [rec[r] EXCEPT !.privateMode = TRUE] ELSE rec[r]]
    /\ Call
    /\ last' = [NoCall EXCEPT !.op = "enablePrivateMode"]
    /\ UNCHANGED <<skeletonCache, animationPool, ctx, nRec, nCtx>>

EnablePrivateMode ==
    /\ privateMode' = TRUE
    /\ Call
    /\ last' = [NoCall EXCEPT !.op = "enablePrivateMode"]
    /\ UNCHANGED <<skeletonCache, animationPool, rec, ctx, nRec, nCtx>>

Clear ==
    /\ animationPool' = [k \in PoolKeys |-> Null]
    /\ skeletonCache' = [u \in Uuids |-> Null]
    /\ Call
    /\ last' = [NoCall EXCEPT !.op = "clear"]
    /\ UNCHANGED <<privateMode, rec, ctx, nRec, nCtx>>

NoOwned == [n \in AnimNames |-> Null]
\* the recorders an animationsCache map holds
Owned(ac) == { ac[n] : n \in AnimNames } \ {Null}

InvalidAnimationCache(uuid) ==
    LET c  == skeletonCache[uuid]
        ac == IF c = Null THEN NoOwned ELSE ctx[c].animationsCache
    IN  /\ rec' = [r \in RecIds |->
                     IF r \in Owned(ac) THEN invalidAllFrame(rec[r]) ELSE rec[r]]
        /\ Call
        /\ last' = [NoCall EXCEPT !.op = "invalidAnimationCache", !.uuid = uuid]
        /\ UNCHANGED <<privateMode, skeletonCache, animationPool, ctx, nRec, nCtx>>

\* mutant: only the first animation of the context is pooled
poolAnimationsFirstOnly(uuid, ac) ==
    [k \in PoolKeys |->
       IF \E n \in AnimNames : ac[n] # Null /\ k = PoolKey(uuid, n)
                                /\ \A m \in AnimNames : ac[m] # Null => ac[n] <= ac[m]
       THEN ac[CHOOSE n \in AnimNames : ac[n] # Null /\ k = PoolKey(uuid, n)]
       ELSE animationPool[k]]

\* the pool after the loop of removeSkeleton over the map ac of context uuid
poolAnimations(uuid, ac) ==
    [k \in PoolKeys |->
       IF \E n \in AnimNames : ac[n] # Null /\ k = PoolKey(uuid, n)
       THEN ac[CHOOSE n \in AnimNames : ac[n] # Null /\ k = PoolKey(uuid, n)]
       ELSE animationPool[k]]

RemoveSkeleton(uuid) ==
    LET c  == skeletonCache[uuid]
        ac == IF c = Null THEN NoOwned ELSE ctx[c].animationsCache
    IN  /\ animationPool' = poolAnimations(uuid, ac)
        /\ rec' = [r \in RecIds |-> IF r \in Owned(ac) THEN clear(rec[r]) ELSE rec[r]]
        /\ skeletonCache' = [skeletonCache EXCEPT ![uuid] = Null]
        /\ Call
        /\ last' = [NoCall EXCEPT !.op = "removeSkeleton", !.uuid = uuid]
        /\ UNCHANGED <<privateMode, ctx, nRec, nCtx>>

GetSkeletonCache(uuid) ==
    /\ IF skeletonCache[uuid] = Null
       THEN /\ nCtx < MaxCtx
            /\ nCtx' = nCtx + 1
            /\ ctx' = [ctx EXCEPT ![nCtx + 1] = NewSkeletonInfo]
            /\ skeletonCache' = [skeletonCache EXCEPT ![uuid] = nCtx + 1]
       ELSE UNCHANGED <<nCtx, ctx, skeletonCache>>
    /\ Call
    /\ last' = [NoCall EXCEPT !.op = "getSkeletonCache", !.uuid = uuid]
    /\ UNCHANGED <<privateMode, animationPool, rec, nRec>>

InitAnimationCache(uuid, animationName) ==
    LET c       == skeletonCache[uuid]
        poolKey == PoolKey(uuid, animationName)
    IN  IF c = Null
        THEN /\ Call
             /\ last' = [NoCall EXCEPT !.op = "initAnimationCache", !.uuid = uuid,
                                       !.name = animationName]
             /\ UNCHANGED <<privateMode, skeletonCache, animationPool, rec, ctx,
                            nRec, nCtx>>
        ELSE
          LET inMap  == ctx[c].animationsCache[animationName]
              pooled == animationPool[poolKey]
              made   == IF inMap # Null THEN "map"
                        ELSE IF pooled # Null THEN "pool" ELSE "new"
              r      == IF made = "map" THEN inMap
                        ELSE IF made = "pool" THEN pooled ELSE nRec + 1
          IN  /\ made = "new" => nRec < MaxRec
              /\ nRec' = IF made = "new" THEN nRec + 1 ELSE nRec
              /\ animationPool' = IF made = "pool"
                                  THEN [animationPool EXCEPT ![poolKey] = Null]
                                  ELSE animationPool
              /\ LET R0 == IF made = "new"
                           THEN [NewAnimationCache(uuid) EXCEPT
                                     !.privateMode = privateMode]
                           ELSE rec[r]
                 IN  rec' = [rec EXCEPT ![r] =
                                setAnimation(init(R0, c, animationName), animationName)]
              /\ ctx' = [ctx EXCEPT ![c].animationsCache[animationName] = r]
              /\ Call
              /\ last' = [NoCall EXCEPT !.op = "initAnimationCache", !.uuid = uuid,
                                        !.name = animationName, !.r = r,
                                        !.made = made]
              /\ UNCHANGED <<privateMode, skeletonCache, nCtx>>

DestroyCachedAnimations(uuid) ==
    LET hit(k) == animationPool[k] # Null /\ (uuid = <<>> \/ Includes(k, uuid))
        gone   == { animationPool[k] : k \in { k \in PoolKeys : hit(k) } }
    IN  /\ rec' = [r \in RecIds |->
                     IF r \in gone THEN [rec[r] EXCEPT !.destroyed = TRUE] ELSE rec[r]]
        /\ animationPool' = [k \in PoolKeys |-> IF hit(k) THEN Null ELSE animationPool[k]]
        /\ Call
        /\ last' = [NoCall EXCEPT !.op = "destroyCachedAnimations", !.uuid = uuid]
        /\ UNCHANGED <<privateMode, skeletonCache, ctx, nRec, nCtx>>

\* ---- calls on a recorder the caller holds ----------------------------------
Live(r) == r \in 1..nRec /\ ~rec[r].destroyed

\* what a call that may run begin() on r observes before it runs
BeginInfo(op, r) ==
    LET p == ctx[rec[r].skeletonInfo].curAnimationCache
    IN  [NoCall EXCEPT !.op = op, !.r = r, !.pre = p]

UpdateToFrame(r, frameIdx) ==
    /\ Live(r)
    /\ LET H == updateToFrame(Heap, r, frameIdx)
       IN  rec' = H.rec /\ ctx' = H.ctx
    /\ Call
    /\ last' = [BeginInfo("updateToFrame", r) EXCEPT
                   !.idx = frameIdx,
                   !.began = rec[r].inited /\ rec[r].invalid]
    /\ UNCHANGED <<privateMode, skeletonCache, animationPool, nRec, nCtx>>

Begin(r) ==
    /\ Live(r)
    /\ LET H == begin(Heap, r)
       IN  rec' = H.rec /\ ctx' = H.ctx
    /\ Call
    /\ last' = [BeginInfo("begin", r) EXCEPT !.began = rec[r].invalid]
    /\ UNCHANGED <<privateMode, skeletonCache, animationPool, nRec, nCtx>>

End(r) ==
    /\ Live(r)
    /\ LET H == end(Heap, r)
       IN  rec' = H.rec /\ ctx' = H.ctx
    /\ Call
    /\ last' = [NoCall EXCEPT !.op = "end", !.r = r]
    /\ UNCHANGED <<privateMode, skeletonCache, animationPool, nRec, nCtx>>

GetFrame(r, frameIdx) ==
    /\ Live(r)
    /\ Call
    /\ last' = [NoCall EXCEPT !.op = "getFrame", !.r = r, !.idx = frameIdx,
                              !.res = getFrame(rec[r], frameIdx)]
    /\ UNCHANGED <<privateMode, skeletonCache, animationPool, rec, ctx, nRec, nCtx>>

InvalidAnimationFrames(r) ==
    /\ Live(r)
    /\ rec' = [rec EXCEPT ![r] = invalidAnimationFrames(@)]
    /\ Call
    /\ last' = [NoCall EXCEPT !.op = "invalidAnimationFrames", !.r = r]
    /\ UNCHANGED <<privateMode, skeletonCache, animationPool, ctx, nRec, nCtx>>

\* The animation state of context c reports that an entry of animation
\* entryName completed: listener.complete(entry) runs, if a handler is bound.
Complete(c, entryName) ==
    /\ c \in 1..nCtx
    /\ ctx[c].complete # Null
    /\ LET H == completeHandle(Heap, c, entryName)
       IN  rec' = H.rec /\ ctx' = H.ctx
    /\ Call
    /\ last' = [NoCall EXCEPT !.op = "complete", !.name = entryName,
                              !.r = ctx[c].complete]
    /\ UNCHANGED <<privateMode, skeletonCache, animationPool, nRec, nCtx>>

Targets == 0..MaxTarget \cup {NoTarget}

Next ==
    \/ EnablePrivateMode
    \/ Clear
    \/ \E u \in Uuids : InvalidAnimationCache(u)
    \/ \E u \in Uuids : RemoveSkeleton(u)
    \/ \E u \in Uuids : GetSkeletonCache(u)
    \/ \E u \in Uuids, n \in AnimNames : InitAnimationCache(u, n)
    \/ \E u \in DestroyArgs : DestroyCachedAnimations(u)
    \/ \E r \in RecIds, t \in Targets : UpdateToFrame(r, t)
    \/ \E r \in RecIds : Begin(r)
    \/ \E r \in RecIds : End(r)
    \/ \E r \in RecIds, i \in 0..(MaxTarget + 1) : GetFrame(r, i)
    \/ \E r \in RecIds : InvalidAnimationFrames(r)
    \/ \E c \in CtxIds, n \in AnimNames : Complete(c, n)

Spec == Init /\ [][Next]_vars

\* The registry after getSkeletonCache("h"), initAnimationCache("h", "w") and
\* updateToFrame() on the recorder returned: one context holding one recorder
\* that has baked its animation to completion.  The depth counter starts at
\* 2, which leaves MaxCalls - 2 calls from this state.
InitBaked ==
    LET R1 == setAnimation(init(NewAnimationCache(<<"h">>), 1, <<"w">>), <<"w">>)
        H0 == [ rec |-> [r \in RecIds |-> IF r = 1 THEN R1 ELSE NoRec],
                ctx |-> [c \in CtxIds |->
                           IF c = 1
                           THEN [NewSkeletonInfo EXCEPT !.animationsCache[<<"w">>] = 1]
                           ELSE NewSkeletonInfo] ]
        H1 == updateToFrame(H0, 1, NoTarget)
    IN  /\ privateMode = FALSE
        /\ skeletonCache = [u \in Uuids |-> IF u = <<"h">> THEN 1 ELSE Null]
        /\ animationPool = [k \in PoolKeys |-> Null]
        /\ rec = H1.rec
        /\ ctx = H1.ctx
        /\ nRec = 1
        /\ nCtx = 1
        /\ last = [NoCall EXCEPT !.op = "updateToFrame", !.r = 1, !.idx = NoTarget,
                                 !.began = TRUE]
        /\ calls = 2
        /\ clock = IdleClock

SpecBaked == InitBaked /\ [][Next]_vars

\* maxFrameIdex of an animation that ends before the cap and of one that does
\* not
LongBakes == {CapTicks - 2, CapTicks + 2}

\* One recorder right after begin(), about to run updateToFrame().
InitElapsed ==
    /\ EmptyCache
    /\ \E m \in LongBakes : clock = [IdleClock EXCEPT !.maxFrameIdex = m]

\* One pass of the do-while loop of updateToFrame(), taken while
\* needToUpdate() holds.
Accumulate ==
    /\ clockNeedToUpdate(clock)
    /\ clock' = [clock EXCEPT
                    !.frameIdx = @ + 1,
                    !.totalTime = DoubleAdd(@, FrameTime),
                    !.isCompleted = clock.frameIdx + 1 >= clock.maxFrameIdex]
    /\ UNCHANGED <<privateMode, skeletonCache, animationPool, rec, ctx, nRec,
                   nCtx, last, calls>>

NextElapsed == Accumulate

SpecElapsed == InitElapsed /\ [][NextElapsed]_vars

\* ---- properties -----------------------------------------------------------
Allocated == 1..nRec

\* setAnimation found the recorder's animation in its skeleton data
Configured(R) == HasAnimation(R.skeletonData, R.animationName)

\* begin() has taken effect on r and r is neither completed nor invalidated
Active(r) == r \in Allocated /\ ~rec[r].invalid /\ ~rec[r].isCompleted

\* the last call ran begin() on recorder last.r while the context's current
\* recorder was another recorder, last.pre
Preempted ==
    /\ last.op \in {"updateToFrame", "begin"}
    /\ last.began
    /\ last.pre # Null
    /\ last.pre # last.r

\* C1: in every reachable state each skeleton context has at most one active
\* recorder (begun, not completed, not invalidated).
C1_AtMostOneActive ==
    \A a \in Allocated, b \in Allocated :
        (Active(a) /\ Active(b) /\ rec[a].skeletonInfo = rec[b].skeletonInfo)
            => a = b

\* C2: shared mode: when begin() takes effect on B while the current recorder
\* A # B has begun and is not completed, A is advanced to its own completion
\* (completed, and frameIdx >= maxFrameIdex or the elapsed cap reached).
C2_SharedFlushesPrev ==
    [][ ( /\ Preempted'
          /\ ~rec[last'.r].privateMode
          /\ ~rec[last'.pre].invalid
          /\ ~rec[last'.pre].isCompleted )
        => ( /\ rec'[last'.pre].isCompleted
             /\ \/ rec'[last'.pre].frameIdx >= rec'[last'.pre].maxFrameIdex
                \/ rec'[last'.pre].totalTime >= MaxCacheTicks ) ]_vars

\* C3 as stated: private mode: when begin() takes effect on B while the
\* current recorder is a distinct recorder A, A is invalidated with its cached
\* frames discarded (frames empty, completed = false, invalid) and is not
\* advanced by any frame.
C3_PrivateDiscardsPrev ==
    [][ (Preempted' /\ rec[last'.r].privateMode)
        => ( /\ rec'[last'.pre].frames = <<>>
             /\ ~rec'[last'.pre].isCompleted
             /\ rec'[last'.pre].invalid
             /\ rec'[last'.pre].frameIdx = rec[last'.pre].frameIdx ) ]_vars

\* C3 amended: private mode: when begin() takes effect on B while the current
\* recorder is a distinct recorder A, A is marked invalid with
\* completed = false and nothing else of A changes: it is not advanced, and
\* its frames array keeps the frames baked so far.
C3_PrivateInvalidatesPrev ==
    [][ (Preempted' /\ rec[last'.r].privateMode)
        => rec'[last'.pre] =
               [rec[last'.pre] EXCEPT !.isCompleted = FALSE, !.invalid = TRUE] ]_vars

\* a private-mode begin has preempted a recorder that holds baked frames
C3_Witness ==
    /\ Preempted
    /\ rec[last.r].privateMode
    /\ rec[last.pre].invalid
    /\ ~rec[last.pre].isCompleted
    /\ rec[last.pre].frames # <<>>

\* the last call was a full bake (no target frame) that began from a fresh
\* or invalidated state on a configured recorder
FullBake ==
    /\ last.op = "updateToFrame"
    /\ last.idx = NoTarget
    /\ last.began
    /\ Configured(rec[last.r])

\* the bake stopped on the elapsed-time cap before the frame count was reached
CapStopped(R) == R.totalTime >= MaxCacheTicks /\ R.frameIdx < R.maxFrameIdex

\* C4 as stated: after an uninterrupted full bake of a configured recorder,
\* frames.length = maxFrameIdex, unless the elapsed-time cap stopped the bake.
C4_FullBakeLength ==
    (FullBake /\ ~CapStopped(rec[last.r]))
        => Len(rec[last.r].frames) = rec[last.r].maxFrameIdex

\* C4 amended: after an uninterrupted full bake of a configured recorder,
\* frames.length = maxFrameIdex + 1 (frame indices 0..maxFrameIdex are baked),
\* unless the elapsed-time cap stopped the bake first.
C4_FullBakeLengthPlusOne ==
    (FullBake /\ ~CapStopped(rec[last.r]))
        => /\ Len(rec[last.r].frames) = rec[last.r].maxFrameIdex + 1
           /\ rec[last.r].frameIdx = rec[last.r].maxFrameIdex
           /\ rec[last.r].isCompleted

\* a full bake ran to the frame count, below the elapsed-time cap
C4_Witness ==
    /\ FullBake
    /\ rec[last.r].isCompleted
    /\ rec[last.r].totalTime < MaxCacheTicks
    /\ Len(rec[last.r].frames) = rec[last.r].maxFrameIdex + 1

\* the frames 0..n-1 of a bake that started at frame 0
Baked(n) == [k \in 1..n |-> k]

\* the step is updateToFrame(M - 1) on a fresh configured recorder r with
\* maxFrameIdex = M, M ticks being within the elapsed-time cap
FreshBakeToLast(r) ==
    /\ last'.op = "updateToFrame"
    /\ last'.r = r
    /\ rec[r].inited /\ rec[r].invalid /\ rec[r].frames = <<>>
    /\ Configured(rec[r])
    /\ rec[r].maxFrameIdex <= MaxCacheTicks
    /\ last'.idx = rec[r].maxFrameIdex - 1

\* C5 as stated: from a fresh state, updateToFrame(M - 1) bakes exactly frames
\* 0..M-1 and leaves completed = true.
C5_BakeToLastCompletes ==
    [][ \A r \in RecIds : FreshBakeToLast(r)
          => ( /\ rec'[r].frames = Baked(rec[r].maxFrameIdex)
               /\ rec'[r].isCompleted ) ]_vars

\* C5 amended: from a fresh state, updateToFrame(M - 1) bakes exactly frames
\* 0..M-1 and leaves completed = false: the recorder is completed only once
\* frame index M has been baked.
C5_BakeToLastNotCompleted ==
    [][ \A r \in RecIds : FreshBakeToLast(r)
          => ( /\ rec'[r].frames = Baked(rec[r].maxFrameIdex)
               /\ rec'[r].frameIdx = rec[r].maxFrameIdex - 1
               /\ ~rec'[r].isCompleted ) ]_vars

\* updateToFrame(M - 1) began a bake and left exactly M frames, not completed
C5_Witness ==
    /\ last.op = "updateToFrame"
    /\ last.began
    /\ Configured(rec[last.r])
    /\ last.idx = rec[last.r].maxFrameIdex - 1
    /\ rec[last.r].frames = Baked(rec[last.r].maxFrameIdex)
    /\ ~rec[last.r].isCompleted

\* wrap-arounds of the frame index that the wrap-around law is checked for
MaxWraps == 2

\* C6: getFrame(i) returns frames[i mod maxFrameIdex]; for a completed
\* recorder getFrame(i) = getFrame(i + k * maxFrameIdex) for every k >= 0;
\* and getFrame changes no recorder or context state.
C6_GetFrameWraps ==
    [][ last'.op = "getFrame"
        => LET R == rec[last'.r]
               M == R.maxFrameIdex
           IN  /\ UNCHANGED <<privateMode, skeletonCache, animationPool, rec, ctx,
                              nRec, nCtx>>
               /\ M >= 1 => last'.res = ElemAt(R.frames, last'.idx % M)
               /\ R.isCompleted =>
                    \A k \in 0..MaxWraps :
                        getFrame(rec'[last'.r], last'.idx + k * M) = last'.res ]_vars

\* getFrame was called on a completed recorder with an index that wraps
\* around, and returned a baked frame
C6_Witness ==
    /\ last.op = "getFrame"
    /\ rec[last.r].isCompleted
    /\ rec[last.r].maxFrameIdex >= 1
    /\ last.idx >= rec[last.r].maxFrameIdex
    /\ last.res # Undefined

\* the step is invalidAnimationCache on a uuid that has a context
InvalidatesAll ==
    last'.op = "invalidAnimationCache" /\ skeletonCache[last'.uuid] # Null

\* C7 as stated: invalidAnimationCache(uuid) leaves every recorder of the
\* context of uuid with frames empty and completed = false, and removes no
\* recorder from the context's map.
C7_InvalidateAllEmpties ==
    [][ InvalidatesAll
        => LET c == skeletonCache[last'.uuid]
           IN  /\ ctx'[c].animationsCache = ctx[c].animationsCache
               /\ \A r \in Owned(ctx[c].animationsCache) :
                     rec'[r].frames = <<>> /\ ~rec'[r].isCompleted ]_vars

\* C7 amended: invalidAnimationCache(uuid) leaves every recorder of the
\* context of uuid marked invalid with completed = false, so that its next
\* begin performs a full rebake; the frames array of each keeps its frames;
\* no recorder is removed from the context's map and no other recorder changes.
C7_InvalidateAllFlags ==
    [][ InvalidatesAll
        => LET c == skeletonCache[last'.uuid]
           IN  /\ ctx' = ctx
               /\ skeletonCache' = skeletonCache
               /\ \A r \in RecIds :
                     rec'[r] = IF r \in Owned(ctx[c].animationsCache)
                               THEN [rec[r] EXCEPT !.isCompleted = FALSE,
                                                   !.invalid = TRUE]
                               ELSE rec[r] ]_vars

\* invalidAnimationCache ran on a context that owns a recorder
\* holding baked frames, which it still holds
C7_Witness ==
    /\ last.op = "invalidAnimationCache"
    /\ skeletonCache[last.uuid] # Null
    /\ \E r \in Owned(ctx[skeletonCache[last.uuid]].animationsCache) :
          /\ rec[r].frames # <<>>
          /\ rec[r].invalid
          /\ ~rec[r].isCompleted

\* C8 as stated: a recorder that initAnimationCache takes back from the pool
\* (after removeSkeleton) is the pooled instance, no new instance is
\* constructed, and it has frames empty, completed = false and frameIdx = -1.
C8_ReclaimedIsReset ==
    [][ (last'.op = "initAnimationCache" /\ last'.made = "pool")
        => ( /\ last'.r = animationPool[PoolKey(last'.uuid, last'.name)]
             /\ nRec' = nRec
             /\ rec'[last'.r].frames = <<>>
             /\ ~rec'[last'.r].isCompleted
             /\ rec'[last'.r].frameIdx = -1 ) ]_vars

\* C8 amended: removeSkeleton leaves each recorder it pools uninitialised and
\* invalid with completed = false, frames and frameIdx as they were;
\* getSkeletonCache changes no recorder; and initAnimationCache for the same
\* uuid and name returns that pooled instance, constructs no new one, and
\* changes nothing of it but to initialise it again: the recorder returned
\* right after is invalid with completed = false (its next updateToFrame
\* rebakes from frame 0) and still holds the frames and frameIdx it had.
C8_ReclaimedKeepsFrames ==
    [][ /\ (last'.op = "removeSkeleton" /\ skeletonCache[last'.uuid] # Null)
           => \A n \in AnimNames :
                LET r == ctx[skeletonCache[last'.uuid]].animationsCache[n]
                IN  r # Null =>
                      /\ animationPool'[PoolKey(last'.uuid, n)] = r
                      /\ rec'[r] = [rec[r] EXCEPT !.inited = FALSE,
                                                  !.isCompleted = FALSE,
                                                  !.invalid = TRUE]
        /\ last'.op = "getSkeletonCache" => rec' = rec
        /\ (last'.op = "initAnimationCache" /\ last'.made = "pool")
           => LET r == animationPool[PoolKey(last'.uuid, last'.name)]
              IN  /\ last'.r = r
                  /\ nRec' = nRec
                  /\ animationPool'[PoolKey(last'.uuid, last'.name)] = Null
                  /\ ctx'[skeletonCache[last'.uuid]].animationsCache[last'.name] = r
                  /\ rec'[r] = [rec[r] EXCEPT
                                   !.inited = TRUE,
                                   !.skeletonInfo = skeletonCache[last'.uuid]] ]_vars

\* initAnimationCache took back from the pool a recorder that had baked
\* frames when its context was removed
C8_Witness ==
    /\ last.op = "initAnimationCache"
    /\ last.made = "pool"
    /\ rec[last.r].inited
    /\ rec[last.r].invalid
    /\ ~rec[last.r].isCompleted
    /\ rec[last.r].frames # <<>>
    /\ rec[last.r].frameIdx >= 0

\* C9: removeSkeleton(uuid) puts every recorder of the context of uuid into
\* the pool under the key of (uuid, animation name) and drops the context,
\* destroying no recorder; an instance is destroyed only by
\* destroyCachedAnimations.
C9_RemovePoolsWithoutDestroy ==
    [][ /\ (last'.op = "removeSkeleton" /\ skeletonCache[last'.uuid] # Null)
           => /\ \A n \in AnimNames :
                   LET r == ctx[skeletonCache[last'.uuid]].animationsCache[n]
                   IN  r # Null => animationPool'[PoolKey(last'.uuid, n)] = r
              /\ skeletonCache'[last'.uuid] = Null
              /\ \A r \in RecIds : rec'[r].destroyed = rec[r].destroyed
        /\ (\E r \in RecIds : rec'[r].destroyed # rec[r].destroyed)
           => last'.op = "destroyCachedAnimations" ]_vars

\* removeSkeleton dropped a context and its recorder sits in the pool, alive
C9_Witness ==
    /\ last.op = "removeSkeleton"
    /\ skeletonCache[last.uuid] = Null
    /\ \E n \in AnimNames :
          /\ animationPool[PoolKey(last.uuid, n)] # Null
          /\ ~rec[animationPool[PoolKey(last.uuid, n)]].destroyed

\* C10: a recorder whose setAnimation did not find the animation name stays
\* unconfigured and baking on it produces no frame: frames stays empty.
C10_UnknownBakesNothing ==
    \A r \in Allocated : ~Configured(rec[r]) => rec[r].frames = <<>>

\* C11: enablePrivateMode changes the mode of no recorder that exists (in a
\* context map, in the pool, or taken back from the pool later): every
\* recorder keeps the mode it was constructed with, and a recorder constructed
\* once private mode is enabled is in private mode.
C11_ModeFixedAtConstruction ==
    [][ /\ \A r \in 1..nRec : rec'[r].privateMode = rec[r].privateMode
        /\ privateMode => privateMode'
        /\ nRec' # nRec
           => /\ nRec' = nRec + 1
              /\ rec'[nRec'].privateMode = privateMode ]_vars

\* private mode was enabled between the construction of a shared-mode
\* recorder and that of a private-mode recorder, or before a shared-mode
\* recorder was taken back from the pool
C11_Witness ==
    /\ privateMode
    /\ last.op = "initAnimationCache"
    /\ last.r # Null
    /\ \/ /\ last.made = "new"
          /\ rec[last.r].privateMode
          /\ \E r \in Allocated : ~rec[r].privateMode
       \/ /\ last.made = "pool"
          /\ ~rec[last.r].privateMode

\* C12: maxFrameIdex >= 1 for every recorder in every reachable state.
C12_MaxFrameAtLeastOne ==
    \A r \in Allocated : rec[r].maxFrameIdex >= 1

\* C13: end() on recorder A with no advancement pending clears the context's
\* current-recorder reference and the completion listener only if they belong
\* to A: when the current recorder is another recorder B, both are left alone.
C13_EndClearsOnlyOwn ==
    [][ \A a \in RecIds :
          LET c == rec[a].skeletonInfo
          IN  ( /\ last'.op = "end"
                /\ last'.r = a
                /\ ~needToUpdate(rec[a], NoTarget)
                /\ ctx[c].curAnimationCache \notin {Null, a} )
              => /\ ctx'[c].curAnimationCache = ctx[c].curAnimationCache
                 /\ ctx'[c].complete = ctx[c].complete ]_vars

\* C15: when updateToFrame returns from a bake stopped by the elapsed-time cap
\* (totalTime reached the cap before frameIdx reached maxFrameIdex), the
\* recorder is completed.
C15_CapStopCompletes ==
    ( /\ last.op = "updateToFrame"
      /\ last.r \in Allocated
      /\ ~rec[last.r].invalid
      /\ CapStopped(rec[last.r]) )
    => rec[last.r].isCompleted

C18_CompletedHasAllFrames ==
    \A r \in Allocated :
        (rec[r].isCompleted /\ ~rec[r].invalid)
            => \A i \in 0..(rec[r].maxFrameIdex - 1) :
                   ElemAt(rec[r].frames, i) # Undefined

\* C19: destroyCachedAnimations(uuid) with a uuid given removes and destroys
\* only recorders pooled for that uuid: a recorder pooled for another uuid
\* stays in the pool and is not destroyed.
C19_DestroysOnlyThatSkeleton ==
    [][ ( /\ last'.op = "destroyCachedAnimations"
          /\ last'.uuid # <<>> )
        => \A u \in Uuids \ {last'.uuid}, n \in AnimNames :
               LET k == PoolKey(u, n)
               IN  animationPool[k] # Null
                   => /\ animationPool'[k] = animationPool[k]
                      /\ ~rec'[animationPool[k]].destroyed ]_vars

\* the registered contexts whose animationsCache holds recorder r
Holders(r) ==
    { u \in Uuids : /\ skeletonCache[u] # Null
                    /\ r \in Owned(ctx[skeletonCache[u]].animationsCache) }

Pooled(r) == \E k \in PoolKeys : animationPool[k] = r

\* C20: every recorder constructed and not destroyed is held in exactly one
\* registered context's animationsCache or in the pool.
C20_NoRecorderLeaked ==
    \A r \in Allocated :
        ~rec[r].destroyed
            => \/ Cardinality(Holders(r)) = 1 /\ ~Pooled(r)
               \/ Holders(r) = {} /\ Pooled(r)

\* C17 as stated: while a recorder is completed (and not invalidated, its
\* frames not emptied), none of updateToFrame, end, begin on itself or on
\* another recorder, or the completion listener changes its frames.
C17_CompletedFramesFrozen ==
    [][ \A r \in RecIds :
          ( /\ r <= nRec
            /\ rec[r].isCompleted
            /\ ~rec[r].invalid
            /\ rec[r].frames # <<>>
            /\ last'.op \in {"updateToFrame", "end", "begin", "complete"} )
          => rec'[r].frames = rec[r].frames ]_vars

\* C17 amended: while a recorder is completed and not invalidated, no call
\* changes its frames except invalidAnimationFrames on it, which empties
\* them, and end() on it, which sets frames.length to frameIdx + 1 and so
\* drops the frames left behind the progress of a rebake that the completion
\* listener completed early.
C17_CompletedFramesOnlyCut ==
    [][ \A r \in RecIds :
          ( /\ r <= nRec
            /\ rec[r].isCompleted
            /\ ~rec[r].invalid )
          => rec'[r].frames =
                 IF last'.r = r /\ last'.op = "invalidAnimationFrames"
                 THEN <<>>
                 ELSE IF last'.r = r /\ last'.op = "end"
                 THEN SetLength(rec[r].frames, rec[r].frameIdx + 1)
                 ELSE rec[r].frames ]_vars

\* end() has run on a recorder the completion listener completed before the
\* frame count and before the cap
C17_Witness ==
    \E r \in Allocated :
        /\ last.op = "end"
        /\ last.r = r
        /\ rec[r].isCompleted
        /\ ~rec[r].invalid
        /\ rec[r].frameIdx + 1 < rec[r].maxFrameIdex
        /\ rec[r].totalTime < MaxCacheTicks
        /\ Len(rec[r].frames) = rec[r].frameIdx + 1
        /\ ctx[rec[r].skeletonInfo].curAnimationCache = Null

\* C14 as stated: one bake never steps the engine more than
\* ceil(MaxCacheTime / FrameTime) times, even if no completion is signalled.
C14_StepsWithinCapRatio ==
    clock.frameIdx + 1 <= CapTicks

\* C14 amended: one bake never steps the engine more than
\* ceil(MaxCacheTime / FrameTime) + 1 times (so every updateToFrame
\* terminates): totalTime is a sum of doubles, and the sum of CapTicks
\* FrameTimes is below MaxCacheTime.
C14_StepsWithinCapRatioPlusOne ==
    clock.frameIdx + 1 <= CapTicks + 1

\* a bake with no completion signalled has stopped on the cap, totalTime
\* being 0x1.e0444444443cdp+4 = 30.016666666666243
C14_Witness ==
    /\ ~clock.isCompleted
    /\ ~clockNeedToUpdate(clock)
    /\ clock.frameIdx + 1 = CapTicks + 1
    /\ clock.totalTime = <<13312, 4367, 4369, 30737>>

====
